---- MODULE Spec2Model ----
(***************************************************************************)
(* Schedule synchronisation of eazyclass: scheduler/tasks/lessons_parser.py *)
(* (update_schedule, the per-group jobs parse_group_lessons_data ->         *)
(* process_group_lessons_data, save_lessons, deactivate_canceled_lessons),  *)
(* the Django cache it uses for FingerprintMarks and cached entities, and   *)
(* the tables of scheduler/models.py.                                       *)
(*                                                                         *)
(* Abstractions.  A date is a positive integer, 0 stands for None.  The    *)
(* timestamp returned by timezone.now().timestamp() is the value of a      *)
(* strictly increasing clock.  The md5 digest of generate_cache_key is     *)
(* taken to be injective, so a cache key is the tuple that is hashed.  The *)
(* id of a dimension row is identified with its natural key, which the     *)
(* unique constraints of models.py make one-to-one.                        *)
(***************************************************************************)
EXTENDS Integers, Sequences, FiniteSets, TLC

\* ------------------------------------------------------------------ bounds
NumGroups == 2
MaxDate == 2
MaxRows == 3
MaxCycles == 3
MaxJobs == 2
MaxLessons == 3
MaxParserRows == 5
NumProcs == 2
Today == 2

\* -------------------------------------------------------- program constants
CellCount == 5

None == 0
Absent == -1

Groups == 1..NumGroups
Dates == 1..MaxDate
Cycles == 1..MaxCycles
JobIds == Cycles \X Groups

\* Texts of the five cells of a data row of the upstream table; an empty
\* text is replaced by the default of the column.
CellTexts == <<"1", "Math", "", "Ivanov", "">>
DefaultSubject == "unspecified"
DefaultClassroom == "(dist)"
DefaultTeacher == "unspecified"
DefaultSubgroup == "0"

VARIABLES
    current_timestamp,  \* the module global of lessons_parser.py
    now,                \* the clock read by timezone.now()
    probe,              \* per invocation of update_schedule: outcome of the probe
    active_groups,      \* table Group: the ids of the rows with is_active
    jobs,               \* per (cycle, group): the chain parse -> process
    lessons,            \* table Lesson
    lesson_times,       \* table LessonTime: set of <<date, lesson_number>>
    dim_rows,           \* tables Teacher, Classroom, Subject: <<model, key>>
    marks,              \* cache: FingerprintMark entries, key -> timestamp
    group_cache,        \* cache: Group entities cached by get_cached_by_id
    dim_cache,          \* cache: entities cached by get_or_create_cached
    parser,             \* the locals of one call of parse_group_schedule_soup
    resolver            \* dimension tables with ids, their cache, and the calls
                        \* that resolve natural keys concurrently

vars == <<current_timestamp, now, probe, active_groups, jobs, lessons, lesson_times,
          dim_rows, marks, group_cache, dim_cache, parser, resolver>>

\* ------------------------------------------------------------- the parser
SectionRow(d) == [colspan |-> TRUE, date_str |-> d, cells |-> <<>>]
DataRow(n) == [colspan |-> FALSE, date_str |-> 0, cells |-> SubSeq(CellTexts, 1, n)]
Rows == {SectionRow(d) : d \in 0..MaxDate}
        \cup {DataRow(n) : n \in {CellCount - 1, CellCount}}
Docs == UNION {[1..n -> Rows] : n \in 0..MaxRows}

\* datetime.strptime(date_str, '%d.%m.%Y').date(): ValueError (None here) on
\* a text that is no date.
strptime(date_str) == IF date_str \in Dates THEN date_str ELSE None

OrDefault(text, default) == IF text = "" THEN default ELSE text

lesson_dict(group_id, current_date, cells) ==
    [date |-> current_date,
     lesson_number |-> cells[1],
     subject_title |-> OrDefault(cells[2], DefaultSubject),
     classroom_title |-> OrDefault(cells[3], DefaultClassroom),
     teacher_name |-> OrDefault(cells[4], DefaultTeacher),
     subgroup |-> OrDefault(cells[5], DefaultSubgroup),
     group_id |-> group_id]

RECURSIVE ParseRows(_, _, _, _, _)
ParseRows(group_id, rows, k, current_date, lessons_data) ==
    IF k > Len(rows) THEN lessons_data
    ELSE LET row == rows[k] IN
         IF row.colspan
         THEN ParseRows(group_id, rows, k + 1, strptime(row.date_str), lessons_data)
         ELSE IF current_date # None /\ Len(row.cells) = CellCount
         THEN ParseRows(group_id, rows, k + 1, current_date,
                        Append(lessons_data, lesson_dict(group_id, current_date, row.cells)))
         ELSE ParseRows(group_id, rows, k + 1, current_date, lessons_data)

parse_group_schedule_soup(group_id, soup) == ParseRows(group_id, soup, 1, None, <<>>)

\* A loop that appends an entry for a five-cell row outside any section: C11
\* must tell it from ParseRow.
ParseRow_NoSectionNeeded(group_id, row, current_date, lessons_data) ==
    IF row.colspan
    THEN [current_date |-> strptime(row.date_str), lessons_data |-> lessons_data]
    ELSE IF Len(row.cells) = CellCount
    THEN [current_date |-> current_date,
          lessons_data |-> Append(lessons_data, lesson_dict(group_id, current_date, row.cells))]
    ELSE [current_date |-> current_date, lessons_data |-> lessons_data]

\* A loop without `current_date = None` ahead of the try: a section row whose
\* date fails to parse leaves the date of the section before.  C12 must tell
\* it from ParseRow.
ParseRow_KeepsDate(group_id, row, current_date, lessons_data) ==
    IF row.colspan
    THEN [current_date |-> IF strptime(row.date_str) # None THEN strptime(row.date_str)
                           ELSE current_date,
          lessons_data |-> lessons_data]
    ELSE IF current_date # None /\ Len(row.cells) = CellCount
    THEN [current_date |-> current_date,
          lessons_data |-> Append(lessons_data, lesson_dict(group_id, current_date, row.cells))]
    ELSE [current_date |-> current_date, lessons_data |-> lessons_data]

\* A loop in which an ordinary row without five cells ends the section: C26
\* must tell it from ParseRow.
ParseRow_ShortRowEndsSection(group_id, row, current_date, lessons_data) ==
    IF row.colspan
    THEN [current_date |-> strptime(row.date_str), lessons_data |-> lessons_data]
    ELSE IF current_date # None /\ Len(row.cells) = CellCount
    THEN [current_date |-> current_date,
          lessons_data |-> Append(lessons_data, lesson_dict(group_id, current_date, row.cells))]
    ELSE [current_date |-> None, lessons_data |-> lessons_data]

\* One iteration of the loop of parse_group_schedule_soup: the locals after
\* `row`.
ParseRow(group_id, row, current_date, lessons_data) ==
    IF row.colspan
    THEN [current_date |-> strptime(row.date_str), lessons_data |-> lessons_data]
    ELSE IF current_date # None /\ Len(row.cells) = CellCount
    THEN [current_date |-> current_date,
          lessons_data |-> Append(lessons_data, lesson_dict(group_id, current_date, row.cells))]
    ELSE [current_date |-> current_date, lessons_data |-> lessons_data]

\* A second five-cell row, to tell the entries of one section apart.
OtherCellTexts == <<"2", "Physics", "101", "", "1">>
OtherDataRow == [colspan |-> FALSE, date_str |-> 0, cells |-> OtherCellTexts]

\* The documents parse_group_schedule_soup is run on by itself.
ParserDocs == UNION {[1..n -> Rows \cup {OtherDataRow}] : n \in 0..MaxParserRows}

\* No call of parse_group_schedule_soup under way.
NoParse == [pc |-> "idle", group_id |-> 1, soup |-> <<>>, k |-> 1, current_date |-> None,
            lessons_data |-> <<>>]

\* --------------------------------------------------------------- the cache
\* generate_cache_key: the key is the model name with the dumped params; a
\* date among the params is replaced IN PLACE by its ISO text, so the caller's
\* dict holds a str afterwards.
generate_cache_key(model_name, params) ==
    LET dumped == IF "date" \in DOMAIN params
                  THEN [params EXCEPT !.date_is_str = TRUE]
                  ELSE params
    IN [key |-> <<model_name, dumped>>, params |-> dumped]

\* make_lesson_cache_key: the fingerprint of a Lesson.
make_lesson_cache_key(lesson) ==
    generate_cache_key("Lesson",
        [group_id |-> lesson.group, subgroup |-> lesson.subgroup,
         lesson_time_id |-> lesson.lesson_time, subject_id |-> lesson.subject,
         teacher_id |-> lesson.teacher, classroom_id |-> lesson.classroom]).key

\* cache.get(key) of a FingerprintMark: None when there is no entry.
cache_get(cache, key) == IF key \in DOMAIN cache THEN cache[key] ELSE Absent

\* cache.set(key, value, timeout)
cache_set(cache, key, value) ==
    [k \in DOMAIN cache \cup {key} |-> IF k = key THEN value ELSE cache[k]]

\* cache.delete(key) for a set of keys
cache_delete(cache, keys) == [k \in DOMAIN cache \ keys |-> cache[k]]

\* Python truth of what cache.get returned for a mark: None and 0 are false.
Falsy(value) == value = Absent \/ value = 0

\* get_cached_by_id(Group, obj_id): a hit returns the cached entity; a miss
\* reads the row, caches it and falls off the end of the function.
get_cached_by_id(cache, obj_id) ==
    IF obj_id \in cache
    THEN [obj |-> obj_id, cache |-> cache]
    ELSE IF obj_id \in Groups
    THEN [obj |-> None, cache |-> cache \cup {obj_id}]
    ELSE [obj |-> None, cache |-> cache]

\* LessonTime.save(): self.date.strftime('%A') when start_time is not set;
\* a str has no strftime.
LessonTime_save(params) == IF params.date_is_str THEN "AttributeError" ELSE "ok"

\* get_or_create_cached(Teacher | Classroom | Subject, {field: value})
get_or_create_cached(st, model_name, value) ==
    LET k == generate_cache_key(model_name, [value |-> value]).key
    IN IF k \in st.dim_cache
       THEN st
       ELSE [st EXCEPT !.dim_rows = @ \cup {<<model_name, value>>},
                       !.dim_cache = @ \cup {k}]

\* get_or_create_cached(LessonTime, {'date': ..., 'lesson_number': ...}):
\* status "AttributeError" when the row has to be created.
get_or_create_cached_lesson_time(st, date, lesson_number) ==
    LET defaults == [date |-> date, date_is_str |-> FALSE, lesson_number |-> lesson_number]
        g == generate_cache_key("LessonTime", defaults)
    IN IF g.key \in st.dim_cache
       THEN st
       ELSE IF <<date, lesson_number>> \in st.lesson_times
       THEN [st EXCEPT !.dim_cache = @ \cup {g.key}]
       ELSE IF LessonTime_save(g.params) = "ok"
       THEN [st EXCEPT !.lesson_times = @ \cup {<<date, lesson_number>>},
                       !.dim_cache = @ \cup {g.key}]
       ELSE [st EXCEPT !.status = "AttributeError"]

\* ------------------------------------------------------------ save_lessons
\* The storage and cache a job works on, with the locals of save_lessons.
Store ==
    [lessons |-> lessons, lesson_times |-> lesson_times, dim_rows |-> dim_rows,
     dim_cache |-> dim_cache, group_cache |-> group_cache, marks |-> marks,
     lessons_to_create |-> <<>>, affected_dates |-> {}, status |-> "ok",
     marked |-> {}]

\* Lesson(group=..., subgroup=..., lesson_time=..., ...), not saved yet.
Lesson(data) ==
    [group |-> data.group_id, subgroup |-> data.subgroup,
     lesson_time |-> <<data.date, data.lesson_number>>,
     teacher |-> data.teacher_name, classroom |-> data.classroom_title,
     subject |-> data.subject_title]

\* `if not cache.get(lesson_key)`: the Lesson is queued for creation.
MarkMissing(cache, lesson_key) == Falsy(cache_get(cache, lesson_key))

\* One iteration of the loop of save_lessons over `data`, reading the global
\* current_timestamp as `timestamp`.
SaveEntry(st, data, timestamp) ==
    IF "date" \notin DOMAIN data THEN st
    ELSE
    LET s1 == get_or_create_cached(st, "Teacher", data.teacher_name)
        s2 == get_or_create_cached(s1, "Classroom", data.classroom_title)
        s3 == get_or_create_cached(s2, "Subject", data.subject_title)
        gr == get_cached_by_id(s3.group_cache, data.group_id)
        s4 == [s3 EXCEPT !.group_cache = gr.cache]
    IN IF gr.obj = None THEN s4
       ELSE
       LET s5 == get_or_create_cached_lesson_time(s4, data.date, data.lesson_number)
           lesson == Lesson(data)
           lesson_key == make_lesson_cache_key(lesson)
           s6 == IF MarkMissing(s5.marks, lesson_key)
                 THEN [s5 EXCEPT !.lessons_to_create = Append(@, lesson),
                                 !.affected_dates = @ \cup {lesson.lesson_time[1]}]
                 ELSE s5
       IN IF s5.status # "ok" THEN s5
          ELSE [s6 EXCEPT !.marks = cache_set(@, lesson_key, timestamp),
                          !.marked = @ \cup {lesson_key}]

\* A batch write that switches the rows with a queued fingerprint back on
\* instead of inserting: C22 and C28 must tell it from bulk_create.
bulk_create_Reactivates(rows, lessons_to_create, cycle) ==
    LET queued == {make_lesson_cache_key(lessons_to_create[k]) :
                      k \in 1..Len(lessons_to_create)}
    IN {IF make_lesson_cache_key(l) \in queued
        THEN [l EXCEPT !.is_active = TRUE, !.deact_by = 0]
        ELSE l : l \in rows}

\* Lesson.objects.bulk_create(lessons_to_create): ids in order, is_active True.
\* History kept for the properties: created_by and deact_by, the cycle of the
\* job that wrote the row and of the job that deactivated it (0: none).
bulk_create(rows, lessons_to_create, cycle) ==
    rows \cup {[id |-> Cardinality(rows) + k,
                created_by |-> cycle, deact_by |-> 0,
                group |-> lessons_to_create[k].group,
                subgroup |-> lessons_to_create[k].subgroup,
                lesson_time |-> lessons_to_create[k].lesson_time,
                teacher |-> lessons_to_create[k].teacher,
                classroom |-> lessons_to_create[k].classroom,
                subject |-> lessons_to_create[k].subject,
                is_active |-> TRUE] : k \in 1..Len(lessons_to_create)}

\* The loop of save_lessons from entry k on; an exception ends it.
RECURSIVE SaveLoop(_, _, _, _)
SaveLoop(st, lessons_data, k, timestamp) ==
    IF k > Len(lessons_data) \/ st.status # "ok" THEN st
    ELSE SaveLoop(SaveEntry(st, lessons_data[k], timestamp), lessons_data, k + 1, timestamp)

\* save_lessons(lessons_data) as one call: the loop, then the batch write; its
\* return value is the field affected_dates.
save_lessons(st, lessons_data, timestamp, cycle) ==
    LET s == SaveLoop([st EXCEPT !.lessons_to_create = <<>>, !.affected_dates = {},
                                 !.marked = {}],
                      lessons_data, 1, timestamp)
    IN IF s.status # "ok" THEN s
       ELSE [s EXCEPT !.lessons = bulk_create(@, s.lessons_to_create, cycle)]

\* ----------------------------------------------- deactivate_canceled_lessons
\* `if not cached_timestamp or cached_timestamp != current_timestamp`
NotObserved(cached_timestamp, timestamp) ==
    Falsy(cached_timestamp) \/ cached_timestamp # timestamp

\* A sweep that does not filter by group: C8 must tell it from SweepCandidates.
SweepCandidates_AnyGroup(rows, group_id) ==
    {l \in rows : l.lesson_time[1] >= Today /\ l.is_active}

\* A sweep that does not filter by date: C21 must tell it from SweepCandidates.
SweepCandidates_AnyDate(rows, group_id) ==
    {l \in rows : l.group = group_id /\ l.is_active}

\* Lesson.objects.filter(group__id=group_id, lesson_time__date__gte=today, is_active=True)
SweepCandidates(rows, group_id) ==
    {l \in rows : l.group = group_id /\ l.lesson_time[1] >= Today /\ l.is_active}

LessonsToDeactivate(rows, cache, group_id, timestamp) ==
    {l \in SweepCandidates(rows, group_id) :
        NotObserved(cache_get(cache, make_lesson_cache_key(l)), timestamp)}

\* A sweep that returns no dates: C16 must tell it from deactivate_canceled_lessons.
deactivate_canceled_lessons_NoDates(st, group_id, timestamp, cycle) ==
    LET gone == LessonsToDeactivate(st.lessons, st.marks, group_id, timestamp)
        ids == {l.id : l \in gone}
    IN [st EXCEPT
          !.lessons = {IF l.id \in ids
                       THEN [l EXCEPT !.is_active = FALSE, !.deact_by = cycle]
                       ELSE l : l \in @},
          !.marks = cache_delete(@, {make_lesson_cache_key(l) : l \in gone}),
          !.affected_dates = {}]

deactivate_canceled_lessons(st, group_id, timestamp, cycle) ==
    LET gone == LessonsToDeactivate(st.lessons, st.marks, group_id, timestamp)
        ids == {l.id : l \in gone}
    IN [st EXCEPT
          !.lessons = {IF l.id \in ids
                       THEN [l EXCEPT !.is_active = FALSE, !.deact_by = cycle]
                       ELSE l : l \in @},
          !.marks = cache_delete(@, {make_lesson_cache_key(l) : l \in gone}),
          !.affected_dates = {l.lesson_time[1] : l \in gone}]

\* ---------------------------------------------------------------- the jobs
\* The locals of one chain: pc, the list handed from parse to process, the loop
\* index and the locals of save_lessons, the dates process_group_lessons_data
\* ends with.  History kept for the properties: fetch (what the request did),
\* parsed (how many entries the parser retained) and marked (the keys whose
\* mark this job's save_lessons wrote).
NoJob == [pc |-> "idle", data |-> <<>>, i |-> 1, lessons_to_create |-> <<>>,
          affected_dates |-> {}, fetch |-> "none", parsed |-> 0, marked |-> {}]

Slots == Dates \X {CellTexts[1]}

\* A soup that is false when it has no contents: C9 must tell it from
\* SoupIsFalsy.
SoupIsFalsy_WhenEmpty(soup) == soup = <<>>

\* `if not schedule_soup`: bs4 defines the truth of a soup as True, with or
\* without contents.
SoupIsFalsy(soup) == FALSE

\* get_soup_from_url: the parsed response, or an empty BeautifulSoup() when the
\* request raised.
get_soup_from_url(fetch, doc) == IF fetch = "ok" THEN doc ELSE <<>>

\* parse_group_lessons_data after the group was found: the entries of the
\* document, or the one entry that carries the group id alone.
lessons_data_of(group_id, schedule_soup) ==
    IF SoupIsFalsy(schedule_soup) THEN <<>>
    ELSE LET lessons_data == parse_group_schedule_soup(group_id, schedule_soup)
         IN IF lessons_data = <<>> THEN <<[group_id |-> group_id]>> ELSE lessons_data

\* What parse_group_lessons_data can return for a group that was found: the
\* result for every document, and for the failed request.
FetchResult(fetch, group_id, doc) ==
    [fetch |-> fetch, group_id |-> group_id,
     parsed |-> Len(parse_group_schedule_soup(group_id, get_soup_from_url(fetch, doc))),
     data |-> lessons_data_of(group_id, get_soup_from_url(fetch, doc))]

FetchResults ==
    {FetchResult("ok", g, d) : g \in Groups, d \in Docs}
    \cup {FetchResult("failed", g, <<>>) : g \in Groups}

\* Group.objects.filter(is_active=True) when the probe succeeded; update_schedule
\* returns before it when the probe raised.
GroupsToDispatch(probe_ok) == IF probe_ok THEN active_groups ELSE {}

Dispatched == {j \in JobIds : jobs[j].pc # "idle"}

\* No call that resolves a natural key under way, the dimension tables of the
\* resolver empty.
NoCall == [pc |-> "idle", op |-> "none", model |-> "none", keys |-> {}, unseen |-> FALSE,
           objects_map |-> {}, missing |-> {}, obj |-> None]

NoResolver == [rows |-> {}, cache |-> {}, calls |-> [c \in 1..NumProcs |-> NoCall]]

\* A Lesson row that an earlier run of the service left in the table, its
\* FingerprintMark expired since.
StoredLesson(g) ==
    [id |-> g, created_by |-> 0, deact_by |-> 0, group |-> g, subgroup |-> DefaultSubgroup,
     lesson_time |-> <<MaxDate, CellTexts[1]>>, teacher |-> CellTexts[4],
     classroom |-> DefaultClassroom, subject |-> CellTexts[2], is_active |-> TRUE]

\* The process has just imported the module; the tables and the cache hold
\* what earlier runs left: LessonTime rows (written in bulk, LessonTime.save
\* not involved), cached Groups, Lessons.
Init ==
    /\ current_timestamp = 0
    /\ now = 0
    /\ probe = [c \in Cycles |-> "none"]
    /\ active_groups \in {1..n : n \in 1..NumGroups}
    /\ jobs = [j \in JobIds |-> NoJob]
    /\ lessons \in {{StoredLesson(g) : g \in 1..n} : n \in 0..NumGroups}
    /\ lesson_times \in {Slots, {<<MaxDate, CellTexts[1]>>}}
    /\ dim_rows = {}
    /\ marks = <<>>
    /\ group_cache \in SUBSET Groups
    /\ dim_cache = {}
    /\ parser = NoParse
    /\ resolver = NoResolver

\* update_schedule(): allocate the timestamp, probe MAIN_URL, dispatch one
\* chain per active group.
UpdateSchedule(probe_ok) ==
    /\ now < MaxCycles
    /\ Cardinality(Dispatched) + Cardinality(GroupsToDispatch(probe_ok)) <= MaxJobs
    /\ now' = now + 1
    /\ current_timestamp' = now'
    /\ probe' = [probe EXCEPT ![now'] = IF probe_ok THEN "ok" ELSE "failed"]
    /\ jobs' = [j \in JobIds |->
                  IF j[1] = now' /\ j[2] \in GroupsToDispatch(probe_ok)
                  THEN [NoJob EXCEPT !.pc = "parse"]
                  ELSE jobs[j]]
    /\ UNCHANGED <<active_groups, lessons, lesson_times, dim_rows, marks, group_cache,
                   dim_cache, parser,
                   resolver>>

\* parse_group_lessons_data(group_id), and the hand-over of its result to
\* process_group_lessons_data, which does nothing on an empty list.
ParseGroupLessonsData(j, f) ==
    /\ jobs[j].pc = "parse"
    /\ f.group_id = j[2]
    /\ LET gr == get_cached_by_id(group_cache, j[2])
           lessons_data == IF gr.obj = None THEN <<>> ELSE f.data
       IN /\ group_cache' = gr.cache
          /\ jobs' = [jobs EXCEPT ![j] =
                        [@ EXCEPT !.pc = IF lessons_data = <<>> THEN "done" ELSE "save",
                                  !.data = lessons_data,
                                  !.fetch = IF gr.obj = None THEN "none" ELSE f.fetch,
                                  !.parsed = IF gr.obj = None THEN 0 ELSE f.parsed]]
    /\ UNCHANGED <<current_timestamp, now, probe, active_groups, lessons, lesson_times, dim_rows,
                   marks, dim_cache, parser,
                   resolver>>

\* save_lessons: one iteration of its loop.
SaveLessonsEntry(j) ==
    /\ jobs[j].pc = "save"
    /\ jobs[j].i <= Len(jobs[j].data)
    /\ LET job == jobs[j]
           st == SaveEntry([Store EXCEPT !.lessons_to_create = job.lessons_to_create,
                                         !.affected_dates = job.affected_dates,
                                         !.marked = job.marked],
                           job.data[job.i], current_timestamp)
       IN /\ lesson_times' = st.lesson_times
          /\ dim_rows' = st.dim_rows
          /\ dim_cache' = st.dim_cache
          /\ group_cache' = st.group_cache
          /\ marks' = st.marks
          /\ jobs' = [jobs EXCEPT ![j] =
                        [@ EXCEPT !.pc = IF st.status = "ok" THEN "save" ELSE "failed",
                                  !.i = @ + 1,
                                  !.lessons_to_create = st.lessons_to_create,
                                  !.affected_dates = st.affected_dates,
                                  !.marked = st.marked]]
    /\ UNCHANGED <<current_timestamp, now, probe, active_groups, lessons, parser,
                   resolver>>

\* A return of save_lessons that leaves the batch write for later: C23 must
\* tell it from SaveLessonsBulkCreate.
SaveLessonsReturn_NoWrite(j) ==
    /\ jobs[j].pc = "save"
    /\ jobs[j].i > Len(jobs[j].data)
    /\ jobs' = [jobs EXCEPT ![j] = [@ EXCEPT !.pc = "sweep"]]
    /\ UNCHANGED <<current_timestamp, now, probe, active_groups, lessons, lesson_times,
                   dim_rows, marks, group_cache, dim_cache, parser, resolver>>

\* save_lessons after its loop: the batch write, and the return.
SaveLessonsBulkCreate(j) ==
    /\ jobs[j].pc = "save"
    /\ jobs[j].i > Len(jobs[j].data)
    /\ Cardinality(lessons) + Len(jobs[j].lessons_to_create) <= MaxLessons
    /\ lessons' = bulk_create(lessons, jobs[j].lessons_to_create, j[1])
    /\ jobs' = [jobs EXCEPT ![j] = [@ EXCEPT !.pc = "sweep"]]
    /\ UNCHANGED <<current_timestamp, now, probe, active_groups, lesson_times, dim_rows, marks,
                   group_cache, dim_cache, parser,
                   resolver>>

\* deactivate_canceled_lessons(group_id) and the end of process_group_lessons_data.
DeactivateCanceledLessons(j) ==
    /\ jobs[j].pc = "sweep"
    /\ LET st == deactivate_canceled_lessons(Store, j[2], current_timestamp, j[1])
       IN /\ lessons' = st.lessons
          /\ marks' = st.marks
          /\ jobs' = [jobs EXCEPT ![j] =
                        [NoJob EXCEPT !.pc = "done",
                                      !.fetch = jobs[j].fetch,
                                      !.parsed = jobs[j].parsed,
                                      !.affected_dates =
                                          jobs[j].affected_dates \cup st.affected_dates]]
    /\ UNCHANGED <<current_timestamp, now, probe, active_groups, lesson_times, dim_rows,
                   group_cache, dim_cache, parser,
                   resolver>>

\* The TTL of a FingerprintMark (TIMEOUT_LESSONS, a day) runs out.  Every write
\* restarts it, and it outlasts the chain that wrote the mark.
ExpireMark(k) ==
    /\ k \in DOMAIN marks
    /\ \A j \in JobIds : jobs[j].pc \in {"save", "sweep"} => k \notin jobs[j].marked
    /\ marks' = cache_delete(marks, {k})
    /\ UNCHANGED <<current_timestamp, now, probe, active_groups, jobs, lessons, lesson_times,
                   dim_rows, group_cache, dim_cache, parser,
                   resolver>>

\* The TTL of a cached Group (TIMEOUT_OTHER) runs out; a hit does not restart it.
ExpireGroup(g) ==
    /\ g \in group_cache
    /\ group_cache' = group_cache \ {g}
    /\ UNCHANGED <<current_timestamp, now, probe, active_groups, jobs, lessons, lesson_times,
                   dim_rows, marks, dim_cache, parser,
                   resolver>>

Next ==
    \/ \E probe_ok \in BOOLEAN : UpdateSchedule(probe_ok)
    \/ \E j \in JobIds, f \in FetchResults : ParseGroupLessonsData(j, f)
    \/ \E j \in JobIds : SaveLessonsEntry(j)
    \/ \E j \in JobIds : SaveLessonsBulkCreate(j)
    \/ \E j \in JobIds : DeactivateCanceledLessons(j)
    \/ \E k \in DOMAIN marks : ExpireMark(k)
    \/ \E g \in Groups : ExpireGroup(g)

Spec == Init /\ [][Next]_vars

\* ------------------------------- a worker where update_schedule never ran
\* current_timestamp is a module global: each worker process has its own, and
\* only the process that runs update_schedule assigns it.  WorkerSpec is a
\* worker process that runs the chains another process dispatched: its global
\* keeps the value of line 21.
WorkerInit ==
    /\ current_timestamp = 0
    /\ now = 0
    /\ probe = [c \in Cycles |-> "none"]
    /\ active_groups = Groups
    /\ jobs = [j \in JobIds |-> NoJob]
    /\ lessons = {}
    /\ lesson_times = Slots
    /\ dim_rows = {}
    /\ marks = <<>>
    /\ group_cache \in SUBSET Groups
    /\ dim_cache = {}
    /\ parser = NoParse
    /\ resolver = NoResolver

\* The worker takes the chain j from the queue.
ReceiveChain(j) ==
    /\ jobs[j].pc = "idle"
    /\ Cardinality(Dispatched) < MaxJobs
    /\ jobs' = [jobs EXCEPT ![j] = [NoJob EXCEPT !.pc = "parse"]]
    /\ UNCHANGED <<current_timestamp, now, probe, active_groups, lessons, lesson_times,
                   dim_rows, marks, group_cache, dim_cache, parser, resolver>>

WorkerNext ==
    \/ \E j \in JobIds : ReceiveChain(j)
    \/ \E j \in JobIds, f \in FetchResults : ParseGroupLessonsData(j, f)
    \/ \E j \in JobIds : SaveLessonsEntry(j)
    \/ \E j \in JobIds : SaveLessonsBulkCreate(j)
    \/ \E j \in JobIds : DeactivateCanceledLessons(j)
    \/ \E k \in DOMAIN marks : ExpireMark(k)
    \/ \E g \in Groups : ExpireGroup(g)

WorkerSpec == WorkerInit /\ [][WorkerNext]_vars

\* ------------------------------------------- a batch write that can fail
\* Lesson.objects.bulk_create(lessons_to_create) raises (the database refuses
\* or cannot be reached): nothing catches it, save_lessons and the task end,
\* and the marks written by the loop stay.
SaveLessonsBulkCreateRaises(j) ==
    /\ jobs[j].pc = "save"
    /\ jobs[j].i > Len(jobs[j].data)
    /\ jobs[j].lessons_to_create # <<>>
    /\ jobs' = [jobs EXCEPT ![j] = [@ EXCEPT !.pc = "failed"]]
    /\ UNCHANGED <<current_timestamp, now, probe, active_groups, lessons, lesson_times,
                   dim_rows, marks, group_cache, dim_cache, parser, resolver>>

\* The service on tables without Lessons, every LessonTime row in place.
BatchInit ==
    /\ Init
    /\ lessons = {}
    /\ lesson_times = Slots
    /\ active_groups = Groups

BatchNext ==
    \/ Next
    \/ \E j \in JobIds : SaveLessonsBulkCreateRaises(j)

BatchSpec == BatchInit /\ [][BatchNext]_vars

\* ------------------------------------- parse_group_schedule_soup by itself
main_vars == <<current_timestamp, now, probe, active_groups, jobs, lessons, lesson_times,
               dim_rows, marks, group_cache, dim_cache>>

\* Nothing has run and nothing is stored but the Groups and the LessonTimes.
Quiescent ==
    /\ current_timestamp = 0
    /\ now = 0
    /\ probe = [c \in Cycles |-> "none"]
    /\ active_groups = Groups
    /\ jobs = [j \in JobIds |-> NoJob]
    /\ lessons = {}
    /\ lesson_times = Slots
    /\ dim_rows = {}
    /\ marks = <<>>
    /\ group_cache = Groups
    /\ dim_cache = {}

\* parse_group_schedule_soup(group_id, soup) is called on some document.
ParserInit ==
    /\ Quiescent
    /\ resolver = NoResolver
    /\ parser \in {[NoParse EXCEPT !.pc = "rows", !.soup = d] : d \in ParserDocs}

\* The loop body, on the row at position k.
ParserStep ==
    LET r == ParseRow(parser.group_id, parser.soup[parser.k], parser.current_date,
                      parser.lessons_data)
    IN parser' = [parser EXCEPT !.k = @ + 1,
                                !.current_date = r.current_date,
                                !.lessons_data = r.lessons_data]

\* `if row.find(attrs={"colspan": True})`: a section row.
ParseSectionRow ==
    /\ parser.pc = "rows"
    /\ parser.k <= Len(parser.soup)
    /\ parser.soup[parser.k].colspan
    /\ ParserStep
    /\ UNCHANGED <<main_vars, resolver>>

\* Any other row.
ParseOrdinaryRow ==
    /\ parser.pc = "rows"
    /\ parser.k <= Len(parser.soup)
    /\ ~parser.soup[parser.k].colspan
    /\ ParserStep
    /\ UNCHANGED <<main_vars, resolver>>

\* `return lessons_data`
ParseReturn ==
    /\ parser.pc = "rows"
    /\ parser.k > Len(parser.soup)
    /\ parser' = [parser EXCEPT !.pc = "returned"]
    /\ UNCHANGED <<main_vars, resolver>>

ParserNext ==
    \/ ParseSectionRow
    \/ ParseOrdinaryRow
    \/ ParseReturn

ParserSpec == ParserInit /\ [][ParserNext]_vars

\* ------------------------------------------- resolving natural keys by itself
\* Calls of get_or_create_cached (lessons_parser.py) and of the bulk variants
\* get_or_create_objects_map and get_or_create_lesson_times_map (managers.py)
\* running side by side on tables whose rows carry ids.  A row is
\* [id, model, key]; the unique constraints of models.py refuse a second row
\* with the model and key of an existing one.
Procs == 1..NumProcs

DimModels == {"Teacher", "LessonTime"}

\* The natural keys: <<date, lesson_number>> of a LessonTime, <<full_name>> of
\* a Teacher.
NaturalKeys(model) ==
    IF model = "LessonTime" THEN Slots ELSE {<<CellTexts[4]>>, <<DefaultTeacher>>}

\* The `defaults` dict of get_or_create_cached for a natural key.
DimDefaults(model, key) ==
    IF model = "LessonTime"
    THEN [date |-> key[1], date_is_str |-> FALSE, lesson_number |-> key[2]]
    ELSE [value |-> key[1]]

RowsOf(rows, model, keys) == {r \in rows : r.model = model /\ r.key \in keys}

\* get_objects_map: filter(field__in=values_set).values_list(field, 'id')
get_objects_map(rows, model, values_set) ==
    {<<r.key, r.id>> : r \in RowsOf(rows, model, values_set)}

\* get_lesson_times_map: the filter is the disjunction of one Q per pair; with
\* no pair it is the empty Q(), which filters nothing.
get_lesson_times_map(rows, lesson_times_set) ==
    IF lesson_times_set = {}
    THEN {<<r.key, r.id>> : r \in {t \in rows : t.model = "LessonTime"}}
    ELSE {<<r.key, r.id>> : r \in RowsOf(rows, "LessonTime", lesson_times_set)}

\* The existing rows for the keys, read by the variant for the model.
GetMap(rows, model, keys) ==
    IF model = "LessonTime" THEN get_lesson_times_map(rows, keys)
    ELSE get_objects_map(rows, model, keys)

MapKeys(objects_map) == {m[1] : m \in objects_map}

\* INSERT of one row per key, ids from the sequence of the table.
InsertRows(rows, model, keys) ==
    LET order == CHOOSE f \in [keys -> 1..Cardinality(keys)] :
                     \A a, b \in keys : f[a] = f[b] => a = b
    IN rows \cup {[id |-> Cardinality(rows) + order[k], model |-> model, key |-> k] :
                     k \in keys}

\* The rows an earlier run left in the tables.
StoredRows ==
    {[id |-> 1, model |-> "Teacher", key |-> <<CellTexts[4]>>],
     [id |-> 2, model |-> "LessonTime", key |-> <<1, CellTexts[1]>>]}

ResolverInit ==
    /\ Quiescent
    /\ parser = NoParse
    /\ resolver \in {[NoResolver EXCEPT !.rows = r] : r \in {{}, StoredRows}}

\* The fields of call c become `call`, the tables become `rows` and `cache`.
ResolverSet(c, call, rows, cache) ==
    /\ resolver' = [rows |-> rows, cache |-> cache,
                    calls |-> [resolver.calls EXCEPT ![c] = call]]
    /\ UNCHANGED <<main_vars, parser>>

CachedObj(cache, key) ==
    IF \E e \in cache : e.key = key THEN (CHOOSE e \in cache : e.key = key).obj ELSE None

\* The one key of a call of get_or_create_cached.
KeyOf(call) == CHOOSE k \in call.keys : TRUE

CacheKeyOf(call) == generate_cache_key(call.model, DimDefaults(call.model, KeyOf(call))).key

\* A job calls get_or_create_cached(model, defaults).
CallGetOrCreateCached(c, model, key) ==
    /\ resolver.calls[c].pc = "idle"
    /\ ResolverSet(c, [NoCall EXCEPT !.pc = "cache_get", !.op = "get_or_create_cached",
                                     !.model = model, !.keys = {key},
                                     !.unseen = RowsOf(resolver.rows, model, {key}) = {}],
                   resolver.rows, resolver.cache)

\* `obj = cache.get(key)`, and the return on a hit.
CacheGet(c) ==
    LET call == resolver.calls[c]
        obj == CachedObj(resolver.cache, CacheKeyOf(call))
    IN /\ call.pc = "cache_get"
       /\ ResolverSet(c, [call EXCEPT !.pc = IF obj # None THEN "returned" ELSE "get",
                                      !.obj = obj],
                      resolver.rows, resolver.cache)

\* objects.get_or_create(**defaults): the SELECT.
StorageGet(c) ==
    LET call == resolver.calls[c]
        found == RowsOf(resolver.rows, call.model, call.keys)
    IN /\ call.pc = "get"
       /\ ResolverSet(c, IF found # {}
                         THEN [call EXCEPT !.pc = "cache_set",
                                           !.obj = (CHOOSE r \in found : TRUE).id]
                         ELSE [call EXCEPT !.pc = "create"],
                      resolver.rows, resolver.cache)

\* objects.get_or_create(**defaults) after the SELECT found nothing: save() of
\* a new instance; on IntegrityError the row is read again.  The dict was
\* handed to generate_cache_key before, so a date in it is a str by now.
StorageCreate(c) ==
    LET call == resolver.calls[c]
        found == RowsOf(resolver.rows, call.model, call.keys)
        params == generate_cache_key(call.model, DimDefaults(call.model, KeyOf(call))).params
        rows == InsertRows(resolver.rows, call.model, call.keys)
    IN /\ call.pc = "create"
       /\ IF call.model = "LessonTime" /\ LessonTime_save(params) # "ok"
          THEN ResolverSet(c, [call EXCEPT !.pc = "raised"], resolver.rows, resolver.cache)
          ELSE IF found # {}
          THEN ResolverSet(c, [call EXCEPT !.pc = "cache_set",
                                           !.obj = (CHOOSE r \in found : TRUE).id],
                           resolver.rows, resolver.cache)
          ELSE ResolverSet(c, [call EXCEPT !.pc = "cache_set",
                                           !.obj = (CHOOSE r \in RowsOf(rows, call.model,
                                                                        call.keys) : TRUE).id],
                           rows, resolver.cache)

\* `cache.set(key, obj, timeout=timeout)` and `return obj`
CacheSet(c) ==
    LET call == resolver.calls[c]
        key == CacheKeyOf(call)
    IN /\ call.pc = "cache_set"
       /\ ResolverSet(c, [call EXCEPT !.pc = "returned"], resolver.rows,
                      {e \in resolver.cache : e.key # key}
                          \cup {[key |-> key, obj |-> call.obj]})

\* A job calls get_or_create_objects_map (Teacher) or
\* get_or_create_lesson_times_map (LessonTime) on a set of natural keys.
CallGetOrCreateMap(c, model, keys) ==
    /\ resolver.calls[c].pc = "idle"
    /\ ResolverSet(c, [NoCall EXCEPT !.pc = "map_get", !.op = "get_or_create_map",
                                     !.model = model, !.keys = keys],
                   resolver.rows, resolver.cache)

\* The first read of the existing rows, and `missing = keys - set(map.keys())`;
\* the return when nothing is missing.
MapGet(c) ==
    LET call == resolver.calls[c]
        objects_map == GetMap(resolver.rows, call.model, call.keys)
        missing == call.keys \ MapKeys(objects_map)
    IN /\ call.pc = "map_get"
       /\ ResolverSet(c, [call EXCEPT !.pc = IF missing = {} THEN "returned" ELSE "bulk_create",
                                      !.objects_map = objects_map,
                                      !.missing = missing],
                      resolver.rows, resolver.cache)

\* `self.bulk_create([...])` of the missing rows: one INSERT, refused whole
\* with IntegrityError when a row for one of the keys exists by now.
BulkCreate(c) ==
    LET call == resolver.calls[c]
    IN /\ call.pc = "bulk_create"
       /\ IF RowsOf(resolver.rows, call.model, call.missing) # {}
          THEN ResolverSet(c, [call EXCEPT !.pc = "raised"], resolver.rows, resolver.cache)
          ELSE ResolverSet(c, [call EXCEPT !.pc = "map_update"],
                           InsertRows(resolver.rows, call.model, call.missing),
                           resolver.cache)

\* `objects_map.update(self.get_objects_map(missing_values, ...))` and the return.
MapUpdate(c) ==
    LET call == resolver.calls[c]
        added == GetMap(resolver.rows, call.model, call.missing)
    IN /\ call.pc = "map_update"
       /\ ResolverSet(c, [call EXCEPT !.pc = "returned",
                                      !.objects_map =
                                          {m \in @ : m[1] \notin MapKeys(added)} \cup added],
                      resolver.rows, resolver.cache)

\* The TTL of a cached dimension entry (TIMEOUT_OTHER) runs out.
ExpireDimension(e) ==
    /\ e \in resolver.cache
    /\ resolver' = [resolver EXCEPT !.cache = @ \ {e}]
    /\ UNCHANGED <<main_vars, parser>>

ResolverNext ==
    \/ \E c \in Procs, model \in DimModels :
          \E key \in NaturalKeys(model) : CallGetOrCreateCached(c, model, key)
    \/ \E c \in Procs : CacheGet(c)
    \/ \E c \in Procs : StorageGet(c)
    \/ \E c \in Procs : StorageCreate(c)
    \/ \E c \in Procs : CacheSet(c)
    \/ \E c \in Procs, model \in DimModels :
          \E keys \in SUBSET NaturalKeys(model) : CallGetOrCreateMap(c, model, keys)
    \/ \E c \in Procs : MapGet(c)
    \/ \E c \in Procs : BulkCreate(c)
    \/ \E c \in Procs : MapUpdate(c)
    \/ \E e \in resolver.cache : ExpireDimension(e)

ResolverSpec == ResolverInit /\ [][ResolverNext]_vars

\* ============================================================== properties
FingerprintOf(l) == make_lesson_cache_key(l)

DatedEntries(data) == {k \in 1..Len(data) : "date" \in DOMAIN data[k]}

\* The fingerprints of the dated entries of an input list.
EntryKeys(data) == {make_lesson_cache_key(Lesson(data[k])) : k \in DatedEntries(data)}

Sentinel(group_id) == <<[group_id |-> group_id]>>

Running(j) == jobs[j].pc \in {"parse", "save", "sweep"}

\* The step of job j that runs deactivate_canceled_lessons.
SweepStep(j) == jobs[j].pc = "sweep" /\ jobs'[j].pc = "done"

\* The job of the same group in the cycle before.
Prev(j) == <<j[1] - 1, j[2]>>

\* Job j ran save_lessons and deactivate_canceled_lessons to the end.
Swept(j) == jobs[j].pc = "done" /\ jobs[j].fetch # "none"

\* C1: in every reachable state there is at most one active Lesson row for
\* any fingerprint.
C1_AtMostOneActivePerFingerprint ==
    \A l1, l2 \in lessons :
        (l1.is_active /\ l2.is_active /\ FingerprintOf(l1) = FingerprintOf(l2))
            => l1.id = l2.id

\* C2: a Lesson of group G dated today or later that G's job of cycle E
\* created (so observed) and that is absent from the input of G's job of cycle
\* E+1 is deactivated by the sweep of that job, and its date is in the affected
\* set of that job.
C2_AbsentDeactivatedOnce ==
    [][\A j \in JobIds :
          (SweepStep(j) /\ j[1] > 1 /\ Swept(Prev(j))) =>
             \A l \in lessons :
                (/\ l.group = j[2]
                 /\ l.created_by = j[1] - 1
                 /\ l.lesson_time[1] >= Today
                 /\ FingerprintOf(l) \notin EntryKeys(jobs[j].data)) =>
                    /\ \E m \in lessons' : m.id = l.id /\ ~m.is_active /\ m.deact_by = j[1]
                    /\ l.lesson_time[1] \in jobs'[j].affected_dates]_vars

\* C3: a Lesson that G's job of cycle E created and whose entry is in the input
\* of G's job of cycle E+1 too: after that job there is exactly one Lesson row
\* with its fingerprint, the row is active, and its date is not in the affected
\* set of the job.
C3_PresentKeptOnce ==
    [][\A j \in JobIds :
          (SweepStep(j) /\ j[1] > 1 /\ Swept(Prev(j))) =>
             \A l \in lessons :
                (/\ l.group = j[2]
                 /\ l.created_by = j[1] - 1
                 /\ FingerprintOf(l) \in EntryKeys(jobs[j].data)) =>
                    /\ \A m \in lessons' :
                          FingerprintOf(m) = FingerprintOf(l) => m.id = l.id /\ m.is_active
                    /\ l.lesson_time[1] \notin jobs'[j].affected_dates]_vars

\* The Lesson rows of `rows` with fingerprint k that are not in `before`.
CreatedSince(before, rows, k) ==
    {l \in rows : l.id \notin {b.id : b \in before} /\ FingerprintOf(l) = k}

\* C4: when a job is about to run save_lessons, running it twice on the job's
\* entries with the epoch unchanged persists at most one Lesson per fingerprint
\* of the input, and the second run queues no Lesson and returns the empty set.
C4_SaveLessonsIdempotent ==
    \A j \in JobIds :
        (jobs[j].pc = "save" /\ jobs[j].i = 1) =>
            LET run1 == save_lessons(Store, jobs[j].data, current_timestamp, j[1])
                run2 == save_lessons(run1, jobs[j].data, current_timestamp, j[1])
            IN run1.status = "ok" =>
                  /\ run2.status = "ok"
                  /\ run2.lessons_to_create = <<>>
                  /\ run2.affected_dates = {}
                  /\ \A k \in EntryKeys(jobs[j].data) :
                        Cardinality(CreatedSince(lessons, run2.lessons, k)) <= 1

\* C5: the sweep of a job deactivates no Lesson whose FingerprintMark the
\* save_lessons of the same job wrote.
C5_SweepKeepsOwnMarks ==
    [][\A j \in JobIds :
          SweepStep(j) =>
             \A l \in lessons :
                (l.is_active /\ FingerprintOf(l) \in jobs[j].marked) =>
                    \E m \in lessons' : m.id = l.id /\ m.is_active]_vars

\* C6: while a job of a cycle is running, the epoch is the value the
\* update_schedule of that cycle allocated.
C6_EpochFixedDuringCycle ==
    \A j \in JobIds : Running(j) => current_timestamp = j[1]

\* The step of job j that runs parse_group_lessons_data.
ParseStep(j) == jobs[j].pc = "parse" /\ jobs'[j].pc # "parse"

\* Any step of a chain that update_schedule dispatched.
JobStep(j) == jobs[j].pc # "idle" /\ jobs'[j] # jobs[j]

\* C7: a cycle whose probe failed dispatches no job and creates no Lesson, and
\* it makes no sweep deactivate a Lesson: a sweep that runs while the epoch of
\* that cycle is current deactivates no Lesson whose FingerprintMark carries the
\* epoch that was current until that update_schedule ran.
C7_FailedProbeNoEffect ==
    [][/\ \A c \in Cycles :
             probe[c] = "failed" =>
                /\ \A g \in Groups : jobs[<<c, g>>].pc = "idle"
                /\ \A l \in lessons : l.created_by # c /\ l.deact_by # c
       /\ \A j \in JobIds :
             (SweepStep(j) /\ probe[current_timestamp] = "failed") =>
                \A l \in LessonsToDeactivate(lessons, marks, j[2], current_timestamp) :
                    cache_get(marks, FingerprintOf(l)) # current_timestamp - 1]_vars

\* The Lessons and the FingerprintMarks of one group.
LessonsOf(g) == {l \in lessons : l.group = g}

MarksOf(cache, g) ==
    [k \in {m \in DOMAIN cache : m[2].group_id = g} |-> cache[k]]

\* C8: a step of the job of group G, whatever its fetch did, leaves the jobs,
\* the Lessons and the FingerprintMarks of every other group as they were, and
\* leaves unchanged what those jobs read besides: the cached Group, the
\* LessonTime rows and the epoch.
C8_FetchFailureConfined ==
    [][\A j \in JobIds :
          JobStep(j) =>
             \A k \in JobIds :
                k[2] # j[2] =>
                   /\ jobs'[k] = jobs[k]
                   /\ LessonsOf(k[2])' = LessonsOf(k[2])
                   /\ MarksOf(marks, k[2])' = MarksOf(marks, k[2])
                   /\ (k[2] \in group_cache') = (k[2] \in group_cache)
                   /\ lesson_times' = lesson_times
                   /\ current_timestamp' = current_timestamp]_vars

\* Group G's fetch failed in a cycle whose probe succeeded, G's job ended, and
\* the job of another group in the same cycle created a Lesson and ended with
\* the Lesson active.
C8_Witness ==
    \E j \in JobIds, k \in JobIds :
        /\ j[1] = k[1] /\ j[2] # k[2]
        /\ jobs[j].fetch = "failed" /\ jobs[j].pc = "done"
        /\ Swept(k)
        /\ \E l \in lessons : l.group = k[2] /\ l.created_by = k[1] /\ l.is_active

\* C9: a job whose group was found and whose document yielded no entry hands
\* the list with the one entry carrying the group id to
\* process_group_lessons_data, whether the request failed or not; its sweep
\* deactivates every active Lesson of the group dated today or later whose
\* FingerprintMark is not stamped with the current epoch.
C9_UnreachableSameAsEmpty ==
    [][\A j \in JobIds :
          /\ (ParseStep(j) /\ jobs'[j].fetch # "none" /\ jobs'[j].parsed = 0) =>
                jobs'[j].data = Sentinel(j[2]) /\ jobs'[j].pc = "save"
          /\ (SweepStep(j) /\ jobs[j].parsed = 0) =>
                /\ jobs[j].data = Sentinel(j[2])
                /\ \A l \in SweepCandidates(lessons, j[2]) :
                      NotObserved(cache_get(marks, FingerprintOf(l)), current_timestamp) =>
                          \E m \in lessons' : m.id = l.id /\ ~m.is_active]_vars

\* A job whose request failed and a job whose document had no entry have each
\* deactivated a Lesson, and neither group is left with an active Lesson dated
\* today or later.
C9_Witness ==
    \E j \in JobIds, k \in JobIds :
        /\ jobs[j].fetch = "failed" /\ jobs[j].pc = "done"
        /\ jobs[k].fetch = "ok" /\ jobs[k].parsed = 0 /\ jobs[k].pc = "done"
        /\ \E l \in lessons : l.group = j[2] /\ l.deact_by = j[1]
        /\ \E l \in lessons : l.group = k[2] /\ l.deact_by = k[1]
        /\ SweepCandidates(lessons, j[2]) = {}
        /\ SweepCandidates(lessons, k[2]) = {}

\* C10: a job whose document was fetched and yielded no entry gets the list
\* with the one entry carrying the group id; its save_lessons queues no Lesson
\* and writes no mark, and after its sweep the group has no active Lesson dated
\* today or later.
C10_EmptyDocumentClearsGroup ==
    [][\A j \in JobIds :
          /\ (ParseStep(j) /\ jobs'[j].fetch = "ok" /\ jobs'[j].parsed = 0) =>
                jobs'[j].data = Sentinel(j[2])
          /\ (SweepStep(j) /\ jobs[j].fetch = "ok" /\ jobs[j].parsed = 0) =>
                /\ jobs[j].lessons_to_create = <<>>
                /\ jobs[j].marked = {}
                /\ \A l \in lessons' :
                      (l.group = j[2] /\ l.lesson_time[1] >= Today) => ~l.is_active]_vars

\* The position of the nearest section row before position i (0: none).
LastSection(rows, i) ==
    LET before == {j \in 1..(i - 1) : rows[j].colspan}
    IN IF before = {} THEN 0 ELSE CHOOSE j \in before : \A m \in before : m <= j

\* The date of the section that position i is in (None: no section, or a
\* section row whose date does not parse).
SectionDate(rows, i) ==
    IF LastSection(rows, i) = 0 THEN None ELSE strptime(rows[LastSection(rows, i)].date_str)

\* The five-cell ordinary rows in a section with a date.
Retained(rows) ==
    {i \in 1..Len(rows) :
        ~rows[i].colspan /\ Len(rows[i].cells) = CellCount /\ SectionDate(rows, i) # None}

Rank(rows, i) == Cardinality({r \in Retained(rows) : r <= i})

\* C11: what parse_group_schedule_soup returns has one entry per five-cell
\* ordinary row whose nearest section row before it has a date that parses,
\* in the order of the document, each with the date of that section row and
\* the texts of its own cells.
C11_OneEntryPerRetainedRow ==
    parser.pc = "returned" =>
        LET rows == parser.soup
            result == parser.lessons_data
        IN /\ result = parse_group_schedule_soup(parser.group_id, rows)
           /\ Len(result) = Cardinality(Retained(rows))
           /\ \A i \in Retained(rows) :
                 result[Rank(rows, i)] =
                     lesson_dict(parser.group_id, SectionDate(rows, i), rows[i].cells)

\* A document with a five-cell row ahead of every section and two different
\* five-cell rows in sections of different dates has been parsed.
C11_Witness ==
    /\ parser.pc = "returned"
    /\ Len(parser.soup) = MaxParserRows
    /\ ~parser.soup[1].colspan /\ Len(parser.soup[1].cells) = CellCount
    /\ Len(parser.lessons_data) = 2
    /\ parser.lessons_data[1].date # parser.lessons_data[2].date
    /\ parser.lessons_data[1].lesson_number # parser.lessons_data[2].lesson_number

\* The parser is in NoSection.
NoSection == parser.current_date = None

\* C12: a section row whose date does not parse leaves the parser in
\* NoSection, whatever state it was in, and adds no entry; an ordinary row
\* met in NoSection adds no entry and leaves NoSection; a section row whose
\* date parses makes that date the current one, and an entry added after it
\* carries that date.
C12_FailedSectionDropsRows ==
    [][/\ (ParseSectionRow /\ strptime(parser.soup[parser.k].date_str) = None) =>
             /\ NoSection'
             /\ parser'.lessons_data = parser.lessons_data
       /\ (ParseOrdinaryRow /\ NoSection) =>
             /\ NoSection'
             /\ parser'.lessons_data = parser.lessons_data
       /\ (ParseSectionRow /\ strptime(parser.soup[parser.k].date_str) # None) =>
             /\ parser'.current_date = strptime(parser.soup[parser.k].date_str)
             /\ parser'.lessons_data = parser.lessons_data
       /\ (ParseOrdinaryRow /\ parser'.lessons_data # parser.lessons_data) =>
             /\ Len(parser'.lessons_data) = Len(parser.lessons_data) + 1
             /\ parser'.lessons_data[Len(parser'.lessons_data)].date = parser.current_date
             /\ parser'.current_date = parser.current_date]_vars

\* A section with a date, a section row whose date does not parse, a five-cell
\* row, a section with another date and a five-cell row were parsed: the one
\* entry carries the date of the last section.
C12_Witness ==
    /\ parser.pc = "returned"
    /\ Len(parser.soup) = 5
    /\ parser.soup[1].colspan /\ strptime(parser.soup[1].date_str) # None
    /\ parser.soup[2].colspan /\ strptime(parser.soup[2].date_str) = None
    /\ ~parser.soup[3].colspan /\ Len(parser.soup[3].cells) = CellCount
    /\ parser.soup[4].colspan /\ strptime(parser.soup[4].date_str) # None
    /\ parser.soup[4].date_str # parser.soup[1].date_str
    /\ ~parser.soup[5].colspan /\ Len(parser.soup[5].cells) = CellCount
    /\ Len(parser.lessons_data) = 1
    /\ parser.lessons_data[1].date = strptime(parser.soup[4].date_str)

\* Call c has ended, by a return or by an exception.
Ended(c) == resolver.calls[c].pc \in {"returned", "raised"}

\* C13: two calls of get_or_create_cached for one natural key that had no row
\* when either was made: once both have ended, both have returned, with the
\* same id, and the table holds exactly one row for the key, the row with
\* that id.
C13_ConcurrentResolveOneRow ==
    \A c \in Procs, d \in Procs :
        LET a == resolver.calls[c]
            b == resolver.calls[d]
        IN (/\ c # d
            /\ a.op = "get_or_create_cached" /\ b.op = "get_or_create_cached"
            /\ a.model = b.model /\ a.keys = b.keys
            /\ a.unseen /\ b.unseen
            /\ Ended(c) /\ Ended(d)) =>
               /\ a.pc = "returned" /\ b.pc = "returned"
               /\ a.obj = b.obj
               /\ {r.id : r \in RowsOf(resolver.rows, a.model, a.keys)} = {a.obj}

\* C14: a call of get_or_create_objects_map or get_or_create_lesson_times_map
\* that has returned holds a mapping whose keys are exactly the keys it was
\* given, each mapped to the id of the one row with that natural key.
C14_BulkMapExact ==
    \A c \in Procs :
        LET call == resolver.calls[c]
        IN (call.op = "get_or_create_map" /\ call.pc = "returned") =>
              /\ MapKeys(call.objects_map) = call.keys
              /\ \A m \in call.objects_map :
                    {r.id : r \in RowsOf(resolver.rows, call.model, {m[1]})} = {m[2]}

\* C15: no call of get_or_create_objects_map or get_or_create_lesson_times_map
\* ends with an exception; the ones that have returned hold an id for each of
\* their keys, and no natural key has two rows.
C15_BulkRaceRecovered ==
    /\ \A c \in Procs :
          LET call == resolver.calls[c]
          IN call.op = "get_or_create_map" =>
                /\ call.pc # "raised"
                /\ call.pc = "returned" => call.keys \subseteq MapKeys(call.objects_map)
    /\ \A r1 \in resolver.rows, r2 \in resolver.rows :
          (r1.model = r2.model /\ r1.key = r2.key) => r1.id = r2.id

\* The Lessons job j created, and the ones its sweep deactivated.
CreatedBy(j) == {l \in lessons : l.group = j[2] /\ l.created_by = j[1]}
DeactivatedBy(j) == {l \in lessons : l.group = j[2] /\ l.deact_by = j[1]}
DatesOf(rows) == {l.lesson_time[1] : l \in rows}

\* C16: when save_lessons has returned, the affected dates of the job are the
\* dates of the Lessons it created; when the job is done, they are the dates
\* of the Lessons it created together with the dates of the Lessons its sweep
\* deactivated, so the set is empty exactly when the job created and
\* deactivated nothing.
C16_AffectedDatesExact ==
    \A j \in JobIds :
        /\ jobs[j].pc = "sweep" => jobs[j].affected_dates = DatesOf(CreatedBy(j))
        /\ jobs[j].pc = "done" =>
              /\ jobs[j].affected_dates = DatesOf(CreatedBy(j)) \cup DatesOf(DeactivatedBy(j))
              /\ (jobs[j].affected_dates = {}) <=> (CreatedBy(j) \cup DeactivatedBy(j) = {})

\* A finished job that created a Lesson on one date and deactivated one on another.
C16_Witness ==
    \E j \in JobIds :
        /\ jobs[j].pc = "done"
        /\ CreatedBy(j) # {} /\ DeactivatedBy(j) # {}
        /\ DatesOf(CreatedBy(j)) # DatesOf(DeactivatedBy(j))
        /\ jobs[j].affected_dates = Dates

\* Job j is inside save_lessons or deactivate_canceled_lessons, the two
\* functions that write and delete FingerprintMarks.
MutatesMarks(j) == jobs[j].pc \in {"save", "sweep"}

\* C17: at no time are two jobs of one group both inside save_lessons or
\* deactivate_canceled_lessons, whenever update_schedule is invoked.
C17_OneJobPerGroup ==
    \A j1 \in JobIds, j2 \in JobIds :
        (j1 # j2 /\ j1[2] = j2[2]) => ~(MutatesMarks(j1) /\ MutatesMarks(j2))

\* The step that is an invocation of update_schedule.
UpdateScheduleStep == now' = now + 1

\* C18: an invocation of update_schedule whose probe fails leaves the epoch
\* as it was: the epoch changes only in an invocation whose probe succeeded.
C18_EpochAfterProbe ==
    [][UpdateScheduleStep =>
          (current_timestamp' # current_timestamp => probe'[now'] = "ok")]_vars

\* The step in which save_lessons takes the entry at jobs[j].i through the
\* check of line 272: a dated entry whose Group was found, no exception.
CheckStep(j) ==
    /\ jobs[j].pc = "save" /\ jobs'[j].pc = "save"
    /\ jobs'[j].i = jobs[j].i + 1
    /\ "date" \in DOMAIN jobs[j].data[jobs[j].i]
    /\ get_cached_by_id(group_cache, j[2]).obj # None

\* That step appended a Lesson to lessons_to_create.
Queued(j) == Len(jobs'[j].lessons_to_create) = Len(jobs[j].lessons_to_create) + 1

\* C19: save_lessons queues a Lesson for an entry exactly when the cache holds
\* no FingerprintMark for the entry's fingerprint at the check; a mark that is
\* there prevents the creation whatever value it carries, 0 included.
C19_QueuedIffNoMark ==
    [][\A j \in JobIds :
          CheckStep(j) =>
             (Queued(j) <=>
                 make_lesson_cache_key(Lesson(jobs[j].data[jobs[j].i])) \notin DOMAIN marks)]_vars

\* The step in which save_lessons of job j returns.
SaveReturns(j) == jobs[j].pc = "save" /\ jobs'[j].pc = "sweep"

\* C20: when save_lessons returns, the cache holds, for every dated entry of
\* its input, a FingerprintMark of the entry's fingerprint that carries the
\* current epoch, whether a Lesson was queued for the entry or not.
C20_AllEntriesMarked ==
    [][\A j \in JobIds :
          SaveReturns(j) =>
             \A k \in EntryKeys(jobs[j].data) :
                 k \in DOMAIN marks' /\ marks'[k] = current_timestamp']_vars

\* The group a FingerprintMark belongs to: the group_id of its key.
GroupOfKey(k) == k[2].group_id

\* C21: the sweep of a job of group G changes only active Lessons of G dated
\* today or later, and only by deactivating them; it changes no Lesson and no
\* FingerprintMark of another group, and no Lesson dated before today is ever
\* inactive.
C21_SweepFrame ==
    [][/\ \A j \in JobIds :
             SweepStep(j) =>
                /\ {l.id : l \in lessons'} = {l.id : l \in lessons}
                /\ \A l \in lessons \ lessons' :
                      /\ l.group = j[2] /\ l.is_active /\ l.lesson_time[1] >= Today
                      /\ [l EXCEPT !.is_active = FALSE, !.deact_by = j[1]] \in lessons'
                /\ DOMAIN marks' \subseteq DOMAIN marks
                /\ \A k \in DOMAIN marks :
                      GroupOfKey(k) # j[2] => (k \in DOMAIN marks' /\ marks'[k] = marks[k])
       /\ \A l \in lessons' : l.lesson_time[1] < Today => l.is_active]_vars

\* A sweep has deactivated a Lesson while the table held an active Lesson of
\* its group dated before today, and an active Lesson of another group dated
\* today or later, neither with a FingerprintMark.
C21_Witness ==
    \E j \in JobIds :
        /\ jobs[j].pc = "done" /\ DeactivatedBy(j) # {}
        /\ \E l \in lessons :
              /\ l.group = j[2] /\ l.is_active /\ l.lesson_time[1] < Today
              /\ l.created_by # 0 /\ l.created_by < j[1]
              /\ FingerprintOf(l) \notin DOMAIN marks
        /\ \E l \in lessons :
              /\ l.group # j[2] /\ l.is_active /\ l.lesson_time[1] >= Today
              /\ FingerprintOf(l) \notin DOMAIN marks

\* Row l without its active flag and the history of who deactivated it.
Content(l) ==
    [id |-> l.id, created_by |-> l.created_by, group |-> l.group, subgroup |-> l.subgroup,
     lesson_time |-> l.lesson_time, teacher |-> l.teacher, classroom |-> l.classroom,
     subject |-> l.subject]

\* C22: no step removes a Lesson row or changes what it says, and no step
\* switches an inactive Lesson back on: the table only grows and an active
\* flag that is false stays false.
C22_RowsKeptNeverReactivated ==
    [][\A l \in lessons :
          \E l2 \in lessons' :
              /\ Content(l2) = Content(l)
              /\ ~l.is_active => ~l2.is_active]_vars

\* A job has created a Lesson with the fingerprint of a Lesson that an
\* earlier sweep deactivated, and the table holds both.
C22_Witness ==
    \E l \in lessons, l2 \in lessons :
        /\ ~l.is_active /\ l.deact_by # 0
        /\ l2.is_active /\ l2.created_by > l.deact_by
        /\ FingerprintOf(l2) = FingerprintOf(l)
        /\ jobs[<<l2.created_by, l2.group>>].pc = "done"

\* C23: a job that is about to run its sweep has taken every entry of its
\* input through save_lessons and has written every Lesson it queued; a job
\* whose save_lessons has not returned, or ended with an exception, has
\* deactivated nothing.
C23_CreateBeforeSweep ==
    \A j \in JobIds :
        /\ jobs[j].pc = "sweep" =>
              /\ jobs[j].i > Len(jobs[j].data)
              /\ Cardinality(CreatedBy(j)) = Len(jobs[j].lessons_to_create)
        /\ jobs[j].pc \in {"parse", "save", "failed"} => DeactivatedBy(j) = {}

\* A job between its batch write and its sweep: it has written a Lesson and
\* its sweep has a Lesson to deactivate.
C23_Witness ==
    \E j \in JobIds :
        /\ jobs[j].pc = "sweep"
        /\ Len(jobs[j].lessons_to_create) > 0
        /\ LessonsToDeactivate(lessons, marks, j[2], current_timestamp) # {}

\* The ids of the rows with the natural key of call `call`.
IdsOf(rows, call) == {r.id : r \in RowsOf(rows, call.model, call.keys)}

\* The step in which call c reads the cache and finds an entry.
CacheHit(c) ==
    /\ resolver.calls[c].pc = "cache_get" /\ resolver'.calls[c].pc # "cache_get"
    /\ CachedObj(resolver.cache, CacheKeyOf(resolver.calls[c])) # None

\* C24: get_or_create_cached is cache-aside.  A call that finds a cache entry
\* returns it and leaves the tables alone.  Every call ends by a return, with
\* the id of the one row that has its natural key; every cache entry holds the
\* id of the one row with its natural key; two calls for one key return the
\* same id, with or without an expiry between them.
C24_CacheAside ==
    [][/\ \A c \in Procs :
             CacheHit(c) =>
                /\ resolver'.calls[c].pc = "returned"
                /\ resolver'.calls[c].obj =
                      CachedObj(resolver.cache, CacheKeyOf(resolver.calls[c]))
                /\ resolver'.rows = resolver.rows
       /\ \A c \in Procs :
             LET call == resolver'.calls[c]
             IN (call.op = "get_or_create_cached" /\ call.pc \in {"returned", "raised"}) =>
                   /\ call.pc = "returned"
                   /\ IdsOf(resolver'.rows, call) = {call.obj}
                   /\ call.pc = "returned" =>
                         \A d \in Procs :
                             LET other == resolver'.calls[d]
                             IN (other.op = call.op /\ other.pc = "returned"
                                 /\ other.model = call.model /\ other.keys = call.keys)
                                   => other.obj = call.obj
       /\ \A model \in DimModels : \A key \in NaturalKeys(model) :
             LET e == CachedObj(resolver'.cache,
                                generate_cache_key(model, DimDefaults(model, key)).key)
             IN e # None => {r.id : r \in RowsOf(resolver'.rows, model, {key})} = {e}]_vars

\* C25: get_cached_by_id gives the Group with the id it is asked for whenever
\* the row exists, cached or not, so the job of an existing active group that
\* runs parse_group_lessons_data goes on to fetch the page of the group.
C25_GroupFoundOnMiss ==
    [][\A j \in JobIds :
          ParseStep(j) =>
             /\ get_cached_by_id(group_cache, j[2]).obj = j[2]
             /\ jobs'[j].fetch # "none"]_vars

\* The five-cell rows of a dated section that come after an ordinary row of
\* the same section without five cells.
AfterShortRow(rows) ==
    {i \in Retained(rows) :
        \E m \in (LastSection(rows, i) + 1)..(i - 1) : Len(rows[m].cells) # CellCount}

\* C26: an ordinary row that does not have five cells changes neither the
\* current date nor the entries collected so far, and the five-cell rows after
\* it in its section are returned with the date of the section.
C26_DroppedRowKeepsState ==
    [][/\ (ParseOrdinaryRow /\ Len(parser.soup[parser.k].cells) # CellCount) =>
             /\ parser'.current_date = parser.current_date
             /\ parser'.lessons_data = parser.lessons_data
       /\ parser'.pc = "returned" =>
             \A i \in AfterShortRow(parser'.soup) :
                 /\ Rank(parser'.soup, i) <= Len(parser'.lessons_data)
                 /\ parser'.lessons_data[Rank(parser'.soup, i)] =
                       lesson_dict(parser'.group_id, SectionDate(parser'.soup, i),
                                   parser'.soup[i].cells)]_vars

\* A document whose section holds a five-cell row, a four-cell row and another
\* five-cell row has been parsed, and both five-cell rows were returned.
C26_Witness ==
    /\ parser.pc = "returned"
    /\ AfterShortRow(parser.soup) # {}
    /\ Len(parser.lessons_data) = 2
    /\ parser.lessons_data[1].date = parser.lessons_data[2].date
    /\ parser.lessons_data[1].lesson_number # parser.lessons_data[2].lesson_number
    /\ \E i \in AfterShortRow(parser.soup) :
          /\ Rank(parser.soup, i) = 2
          /\ ~parser.soup[i - 1].colspan /\ Len(parser.soup[i - 1].cells) # CellCount

\* C27: whenever no job is in progress, every FingerprintMark in the cache is
\* the fingerprint of an active Lesson row; so a job whose save_lessons ended
\* with an exception after it wrote marks leaves no mark behind that would stop
\* a later job from creating the Lessons.
C27_MarksHaveLessons ==
    (\A j \in JobIds : ~Running(j)) =>
        \A k \in DOMAIN marks :
            \E l \in lessons : l.is_active /\ FingerprintOf(l) = k

\* The Lessons of the group of job j that a sweep of an earlier cycle
\* deactivated, whose entry is in the input of j, and that have no active row
\* with their fingerprint.
Reappeared(j) ==
    {l \in lessons :
        /\ l.group = j[2] /\ ~l.is_active
        /\ l.deact_by # 0 /\ l.deact_by < j[1]
        /\ FingerprintOf(l) \in EntryKeys(jobs[j].data)
        /\ \A a \in lessons : FingerprintOf(a) = FingerprintOf(l) => ~a.is_active}

\* C28: when save_lessons of a job returns, every Lesson that a sweep of an
\* earlier cycle deactivated and whose entry is in the input again has a new
\* active row written by this job, its date is among the affected dates of the
\* job, and the old row is still there, inactive.
C28_ReappearedCreatedAgain ==
    [][\A j \in JobIds :
          SaveReturns(j) =>
             \A l \in Reappeared(j) :
                 /\ \E l2 \in lessons' :
                       /\ l2.created_by = j[1] /\ l2.is_active
                       /\ FingerprintOf(l2) = FingerprintOf(l)
                 /\ l.lesson_time[1] \in jobs'[j].affected_dates
                 /\ l \in lessons']_vars

====
